---- MODULE Spec2Model ----
(***************************************************************************)
(* Concurrent sets of shakhrayv/MIPT.Code:                                 *)
(*   StripedHashSet      (Concurrency/Striped Hash Set/StripedHashSet.h,   *)
(*                        stripes guarded by ReadWriteLock)                *)
(*   OptimisticLinkedSet (unnamed/part_001, per-node SpinLock)             *)
(* Concurrency/StripedHashSet.h is the same set over std::mutex stripes;    *)
(* its Insert, Remove and Rehash are statement for statement the same.     *)
(* One run exercises one of the two sets (variant).  Threads execute the   *)
(* methods statement by statement; every shared read or write is a step.   *)
(***************************************************************************)
EXTENDS Integers, Sequences, FiniteSets, TLC

\* ------------------------------------------------------------------ bounds
NThreads == 2          \* threads calling the set
MaxVal == 3            \* T ranges over 0..MaxVal
MaxCalls == 3          \* calls started in a free-running (mixed) run
MaxFill == 3           \* calls of the sequential prefix of a scenario run
MaxLevel == 2          \* concurrency_level ranges over 1..MaxLevel
MaxGrowth == 2         \* growth_factor ranges over 1..MaxGrowth
NLockThreads == 3      \* threads using the ReadWriteLock under test
MaxLockCalls == 4      \* ReadLock/WriteLock calls made on the lock under test
NWorkers == 2          \* worker threads looping on BlockingQueue::Get
NProducers == 2        \* threads calling BlockingQueue::Put
MaxPuts == 3           \* Put calls started on the queue under test
MaxCapacity == 2       \* capacity ranges over 1..MaxCapacity

Threads == 1..NThreads
Values == 0..MaxVal
\* load_factor arguments tried, in quarters: 0.75 and the default 1.25
LoadFactors == {3, 5}
\* ElementTraits<T>::Min() / Max() of the modelled element type
MinT == 0
MaxT == MaxVal
\* size_t arithmetic of OptimisticLinkedSet::elements_ wraps (width scaled down)
SizeMod == 2 ^ 16
\* nullptr
Null == 0

VARIABLES
  variant,            \* "striped" or "linked": the set under test
  phase,              \* "mixed" | "fill" | "run" | "check" | "done"
  runOp, target,      \* scenario: every thread calls runOp(target) once
  ncalls,             \* calls started so far (mixed and fill)
  called,             \* threads that have made their scenario call
  pc, op, arg, res,   \* per thread: position, method, argument, return value
  \* ---- StripedHashSet
  load_factor,        \* constructor argument (double), in quarters
  growth_factor_, max_load_factor_, num_stripes_,
  num_elements_, hash_table_, locks_,
  bucket_index, found, i,  \* locals of Insert/Remove/Contains and Rehash
  \* ---- OptimisticLinkedSet
  element_, next_, marked_, idle, head_, elements_,
  pred, curr,         \* Edge search_result of the running call
  \* ---- history of the run (not program state)
  okIns, okRem,       \* calls that returned true
  live,               \* live[v]: the last successful call on v was an Insert
  retTrue, retFalse,  \* scenario calls that returned true / false
  present0,           \* target was an element when the scenario calls began
  checkRes,           \* result of the closing Contains(target)
  grew,               \* a Rehash replaced the table during the scenario calls
  sentinelHit,        \* Remove/Contains matched the head or tail sentinel
  sentinelArg,        \* some call had Min() or Max() as its argument
  snap,               \* the set as it was when the running solo call began
  \* ---- BlockingQueue, ThreadPool
  queueFile,          \* "part_000" or "part_001": the BlockingQueue under test
  capacity, off, box,
  mutex,              \* the thread holding BlockingQueue::mutex, 0 if none
  qpc,                \* per queue thread: position
  nputs               \* Put calls started so far

\* changed only when a call starts or the scenario moves on
callVars == <<variant, runOp, target, ncalls, called, op, arg, present0, sentinelArg, snap>>
\* changed when a call returns
retVars == <<phase, res, okIns, okRem, live, retTrue, retFalse, checkRes>>
cfgVars == <<load_factor, growth_factor_, max_load_factor_, num_stripes_>>
shsVars == <<num_elements_, hash_table_, locks_, bucket_index, i, found>>
olsVars == <<element_, next_, marked_, idle, head_, elements_, pred, curr>>
bqVars == <<queueFile, capacity, off, box, mutex, qpc, nputs>>
vars == <<callVars, retVars, pc, cfgVars, bqVars, shsVars, olsVars, grew, sentinelHit>>

\* ----------------------------------------------------------- StripedHashSet
\* std::hash of an unsigned integer
Hash(v) == v

GetStripeIndex(element_hash_value) == element_hash_value % num_stripes_

\* slip: the bucket is chosen by the stripe count, not by the table size
GetBucketIndex_Stripes(element_hash_value) == element_hash_value % num_stripes_

GetBucketIndex(element_hash_value) == element_hash_value % Len(hash_table_)

\* static_cast<double>(n) / size, returned as std::size_t: truncated
GetLoadFactor == num_elements_ \div Len(hash_table_)

\* max_load_factor_ is a std::size_t initialised from the double load_factor
Truncate(quarters) == quarters \div 4

\* bucket b (0-based) of the table
Bucket(b) == hash_table_[b + 1]

\* std::find(bucket.begin(), bucket.end(), element) != bucket.end()
Find(bucket, element) == \E k \in 1..Len(bucket) : bucket[k] = element

\* slip: the whole bucket is cleared instead of the one element
ListRemove_Clear(bucket, element) == <<>>

\* forward_list::remove(value): erases every element equal to value
ListRemove(bucket, element) == SelectSeq(bucket, LAMBDA x : x # element)

RECURSIVE Flatten(_)
\* the items of the table in the order Rehash visits them
Flatten(tab) == IF tab = <<>> THEN <<>> ELSE Head(tab) \o Flatten(Tail(tab))

RECURSIVE RehashInto(_, _, _)
\* the loop of Rehash: push each item to the front of temp[hash % new_size]
RehashInto(items, temp, new_size) ==
  IF items = <<>> THEN temp
  ELSE RehashInto(Tail(items),
                  [temp EXCEPT ![(Hash(Head(items)) % new_size) + 1] = <<Head(items)>> \o @],
                  new_size)

\* slip: the table grows by adding growth_factor_ instead of multiplying
Rehashed_Additive(tab, factor) ==
  LET new_size == Len(tab) + factor
  IN RehashInto(Flatten(tab), [b \in 1..new_size |-> <<>>], new_size)

\* the table Rehash builds
Rehashed(tab, factor) ==
  LET new_size == Len(tab) * factor
  IN RehashInto(Flatten(tab), [b \in 1..new_size |-> <<>>], new_size)

\* ReadWriteLock
FreshLock == [writers_ |-> 0, readers_ |-> 0, write_state |-> FALSE]
\* slip: a writer waits for readers only, not for the writer inside
CanWrite_ReadersOnly(l) == l.readers_ = 0
CanWrite(l) == l.readers_ = 0 /\ ~l.write_state
\* slip: a reader does not wait for writers
CanRead_NoWait(l) == TRUE
CanRead(l) == l.writers_ = 0
WriteUnlocked(l) == [l EXCEPT !.writers_ = @ - 1, !.write_state = FALSE]

\* the elements of the table, as a set, and its total length
TableElems(tab) == {Flatten(tab)[k] : k \in 1..Len(Flatten(tab))}
TableCount(tab) == Len(Flatten(tab))

\* ------------------------------------------------------ OptimisticLinkedSet
\* CreateEmptyList allocates the head sentinel first, the tail sentinel second
HeadNode == 1
TailNode == 2

RECURSIVE ChainOf(_, _, _)
\* the nodes met by following nx from node n (at most fuel of them)
ChainOf(nx, n, fuel) ==
  IF n = Null \/ fuel = 0 THEN <<>> ELSE <<n>> \o ChainOf(nx, nx[n], fuel - 1)

\* the nodes reachable from head_, in order
Chain == ChainOf(next_, head_, Len(element_))

\* element values held by the reachable nodes that are not sentinels
ChainElems ==
  {element_[Chain[k]] : k \in {j \in 1..Len(Chain) : Chain[j] \notin {HeadNode, TailNode}}}

\* Validate(edge)
Validate(p, c) == ~marked_[p] /\ ~marked_[c] /\ next_[p] = c

\* ------------------------------------------------------------ calls, returns
Ops == {"Insert", "Remove", "Contains"}

\* v is an element of the set under test (sentinel nodes are not elements)
InSet(v) == IF variant = "striped" THEN v \in TableElems(hash_table_) ELSE v \in ChainElems

\* what a caller can observe of the set between calls
Observable ==
  [table |-> hash_table_, size |-> num_elements_,
   chain |-> Chain, elements |-> elements_,
   elems |-> IF variant = "striped" THEN TableElems(hash_table_) ELSE ChainElems]

\* first statement of method o
Entry(o) ==
  IF variant = "linked" THEN "Locate0"
  ELSE IF o = "Contains" THEN "RLock" ELSE "WLockEnter"

\* thread t enters o(v)
Start(t, o, v) ==
  /\ pc' = [pc EXCEPT ![t] = Entry(o)]
  /\ op' = [op EXCEPT ![t] = o]
  /\ arg' = [arg EXCEPT ![t] = v]
  /\ sentinelArg' = (sentinelArg \/ (variant = "linked" /\ v \in {MinT, MaxT}))
  /\ snap' = IF phase = "fill" THEN Observable ELSE snap
  /\ UNCHANGED <<variant, runOp, target, present0>>
  /\ UNCHANGED <<res, okIns, okRem, live, retTrue, retFalse, checkRes>>
  /\ UNCHANGED <<cfgVars, bqVars, shsVars, olsVars, grew, sentinelHit>>

\* thread t moves to statement l of its call
Goto(t, l) == pc' = [pc EXCEPT ![t] = l] /\ UNCHANGED retVars

\* the call of thread t returns r
Finish(t, r) ==
  /\ pc' = [pc EXCEPT ![t] = "idle"]
  /\ res' = [res EXCEPT ![t] = r]
  /\ okIns' = IF op[t] = "Insert" /\ r THEN okIns + 1 ELSE okIns
  /\ okRem' = IF op[t] = "Remove" /\ r THEN okRem + 1 ELSE okRem
  /\ live' = IF r /\ op[t] # "Contains"
             THEN [live EXCEPT ![arg[t]] = (op[t] = "Insert")] ELSE live
  /\ retTrue' = IF phase = "run" /\ r THEN retTrue + 1 ELSE retTrue
  /\ retFalse' = IF phase = "run" /\ ~r THEN retFalse + 1 ELSE retFalse
  /\ checkRes' = IF phase = "check" THEN r ELSE checkRes
  /\ phase' = IF phase = "check" THEN "done" ELSE phase

AllIdle == \A t \in Threads : pc[t] = "idle"

\* a free-running thread calls any method with any argument
CallMixed(t) ==
  /\ phase = "mixed" /\ pc[t] = "idle" /\ ncalls < MaxCalls
  /\ \E o \in Ops, v \in Values : Start(t, o, v)
  /\ ncalls' = ncalls + 1
  /\ UNCHANGED <<called, phase>>

\* scenario, sequential prefix: thread 1 alone calls Insert or Remove
CallFill(t) ==
  /\ phase = "fill" /\ t = 1 /\ pc[t] = "idle" /\ ncalls < MaxFill
  /\ \E o \in {"Insert", "Remove"}, v \in Values : Start(t, o, v)
  /\ ncalls' = ncalls + 1
  /\ UNCHANGED <<called, phase>>

\* scenario: the prefix is over, the concurrent calls may begin
BeginRun ==
  /\ phase = "fill" /\ AllIdle
  /\ phase' = "run"
  /\ present0' = InSet(target)
  /\ UNCHANGED <<variant, runOp, target, ncalls, called, op, arg, sentinelArg, snap>>
  /\ UNCHANGED <<res, okIns, okRem, live, retTrue, retFalse, checkRes>>
  /\ UNCHANGED <<pc, cfgVars, bqVars, shsVars, olsVars, grew, sentinelHit>>

\* scenario: each thread calls runOp(target) once
CallRun(t) ==
  /\ phase = "run" /\ pc[t] = "idle" /\ t \notin called
  /\ Start(t, runOp, target)
  /\ called' = called \cup {t}
  /\ UNCHANGED <<ncalls, phase>>

\* scenario: all calls have returned, thread 1 calls Contains(target)
CallCheck(t) ==
  /\ phase = "run" /\ t = 1 /\ called = Threads /\ AllIdle
  /\ Start(t, "Contains", target)
  /\ phase' = "check"
  /\ UNCHANGED <<ncalls, called>>

\* ------------------------------------------------- StripedHashSet, by step
ShsFrame == UNCHANGED <<callVars, cfgVars, bqVars, olsVars, sentinelHit>>

\* the stripe of the argument of thread t
Stripe(t) == GetStripeIndex(Hash(arg[t]))

\* ReadWriteLock::WriteLock, entry: writers_.fetch_add(1)
WriteLockEnter(t) ==
  /\ pc[t] = "WLockEnter"
  /\ locks_' = [locks_ EXCEPT ![Stripe(t)].writers_ = @ + 1]
  /\ Goto(t, "WLockWait")
  /\ UNCHANGED <<num_elements_, hash_table_, bucket_index, i, found, grew>>
  /\ ShsFrame

\* ReadWriteLock::WriteLock, after the wait: write_state.store(true)
WriteLockAcquire(t) ==
  /\ pc[t] = "WLockWait"
  /\ CanWrite(locks_[Stripe(t)])
  /\ locks_' = [locks_ EXCEPT ![Stripe(t)].write_state = TRUE]
  /\ Goto(t, "Find")
  /\ UNCHANGED <<num_elements_, hash_table_, bucket_index, i, found, grew>>
  /\ ShsFrame

\* Insert/Remove: GetBucketIndex, std::find and the branch on its result
FindInBucket(t) ==
  /\ pc[t] = "Find"
  /\ LET b == GetBucketIndex(Hash(arg[t]))
         hit == Find(Bucket(b), arg[t])
     IN /\ bucket_index' = [bucket_index EXCEPT ![t] = b]
        /\ Goto(t, IF op[t] = "Insert"
                   THEN (IF hit THEN "UnlockFail" ELSE "CheckLoad")
                   ELSE (IF hit THEN "Erase" ELSE "UnlockFail"))
  /\ UNCHANGED <<num_elements_, hash_table_, locks_, i, found, grew>>
  /\ ShsFrame

\* Insert: if (GetLoadFactor() > max_load_factor_)
CheckLoad(t) ==
  /\ pc[t] = "CheckLoad"
  /\ Goto(t, IF GetLoadFactor > max_load_factor_ THEN "UnlockRehash" ELSE "PushFront")
  /\ UNCHANGED <<shsVars, grew>>
  /\ ShsFrame

\* Insert: hash_table_[bucket_index].push_front(element)
PushFront(t) ==
  /\ pc[t] = "PushFront"
  /\ hash_table_' = [hash_table_ EXCEPT ![bucket_index[t] + 1] = <<arg[t]>> \o @]
  /\ Goto(t, "FetchAdd")
  /\ UNCHANGED <<num_elements_, locks_, bucket_index, i, found, grew>>
  /\ ShsFrame

\* Insert: num_elements_.fetch_add(1)
FetchAdd(t) ==
  /\ pc[t] = "FetchAdd"
  /\ num_elements_' = num_elements_ + 1
  /\ Goto(t, "UnlockDone")
  /\ UNCHANGED <<hash_table_, locks_, bucket_index, i, found, grew>>
  /\ ShsFrame

\* Remove: hash_table_[bucket_index].remove(*it)
Erase(t) ==
  /\ pc[t] = "Erase"
  /\ hash_table_' = [hash_table_ EXCEPT ![bucket_index[t] + 1] = ListRemove(@, arg[t])]
  /\ Goto(t, "FetchSub")
  /\ UNCHANGED <<num_elements_, locks_, bucket_index, i, found, grew>>
  /\ ShsFrame

\* Remove: num_elements_.fetch_sub(1)
FetchSub(t) ==
  /\ pc[t] = "FetchSub"
  /\ num_elements_' = num_elements_ - 1
  /\ Goto(t, "UnlockDone")
  /\ UNCHANGED <<hash_table_, locks_, bucket_index, i, found, grew>>
  /\ ShsFrame

\* Insert/Remove: WriteUnlock and return false
UnlockFail(t) ==
  /\ pc[t] = "UnlockFail"
  /\ locks_' = [locks_ EXCEPT ![Stripe(t)] = WriteUnlocked(@)]
  /\ Finish(t, FALSE)
  /\ UNCHANGED <<num_elements_, hash_table_, bucket_index, i, found, grew>>
  /\ ShsFrame

\* Insert/Remove: WriteUnlock and return true
UnlockDone(t) ==
  /\ pc[t] = "UnlockDone"
  /\ locks_' = [locks_ EXCEPT ![Stripe(t)] = WriteUnlocked(@)]
  /\ Finish(t, TRUE)
  /\ UNCHANGED <<num_elements_, hash_table_, bucket_index, i, found, grew>>
  /\ ShsFrame

\* slip: Insert starts Rehash while still holding its stripe lock
UnlockRehash_KeepLock(t) ==
  /\ pc[t] = "UnlockRehash"
  /\ i' = [i EXCEPT ![t] = 0]
  /\ Goto(t, "RhEnter")
  /\ UNCHANGED <<num_elements_, hash_table_, locks_, bucket_index, found, grew>>
  /\ ShsFrame

\* Insert, over the threshold: WriteUnlock, then enter Rehash
UnlockRehash(t) ==
  /\ pc[t] = "UnlockRehash"
  /\ locks_' = [locks_ EXCEPT ![Stripe(t)] = WriteUnlocked(@)]
  /\ i' = [i EXCEPT ![t] = 0]
  /\ Goto(t, "RhEnter")
  /\ UNCHANGED <<num_elements_, hash_table_, bucket_index, found, grew>>
  /\ ShsFrame

\* Rehash, first loop: locks_[i].WriteLock(), entry
RehashLockEnter(t) ==
  /\ pc[t] = "RhEnter"
  /\ locks_' = [locks_ EXCEPT ![i[t]].writers_ = @ + 1]
  /\ Goto(t, "RhWait")
  /\ UNCHANGED <<num_elements_, hash_table_, bucket_index, i, found, grew>>
  /\ ShsFrame

\* Rehash, first loop: locks_[i].WriteLock() returns; i++
RehashLockAcquire(t) ==
  /\ pc[t] = "RhWait"
  /\ CanWrite(locks_[i[t]])
  /\ locks_' = [locks_ EXCEPT ![i[t]].write_state = TRUE]
  /\ i' = [i EXCEPT ![t] = @ + 1]
  /\ Goto(t, IF i[t] + 1 < num_stripes_ THEN "RhEnter" ELSE "RhCheck")
  /\ UNCHANGED <<num_elements_, hash_table_, bucket_index, found, grew>>
  /\ ShsFrame

\* Rehash: if (GetLoadFactor() <= max_load_factor_) unlock all and return
RehashCheck(t) ==
  /\ pc[t] = "RhCheck"
  /\ i' = [i EXCEPT ![t] = 0]
  /\ Goto(t, IF GetLoadFactor <= max_load_factor_ THEN "RhUnlock" ELSE "RhBuild")
  /\ UNCHANGED <<num_elements_, hash_table_, locks_, bucket_index, found, grew>>
  /\ ShsFrame

\* Rehash: build temp of size * growth_factor_ and move it into hash_table_
RehashBuild(t) ==
  /\ pc[t] = "RhBuild"
  /\ hash_table_' = Rehashed(hash_table_, growth_factor_)
  /\ grew' = (grew \/ phase = "run")
  /\ Goto(t, "RhUnlock")
  /\ UNCHANGED <<num_elements_, locks_, bucket_index, i, found>>
  /\ ShsFrame

\* Rehash, unlock loop: locks_[i].WriteUnlock(); after the last, Insert again
RehashUnlock(t) ==
  /\ pc[t] = "RhUnlock"
  /\ locks_' = [locks_ EXCEPT ![i[t]] = WriteUnlocked(@)]
  /\ i' = [i EXCEPT ![t] = @ + 1]
  /\ Goto(t, IF i[t] + 1 < num_stripes_ THEN "RhUnlock" ELSE "WLockEnter")
  /\ UNCHANGED <<num_elements_, hash_table_, bucket_index, found, grew>>
  /\ ShsFrame

\* Contains: ReadWriteLock::ReadLock
ReadLock(t) ==
  /\ pc[t] = "RLock"
  /\ CanRead(locks_[Stripe(t)])
  /\ locks_' = [locks_ EXCEPT ![Stripe(t)].readers_ = @ + 1]
  /\ Goto(t, "RFind")
  /\ UNCHANGED <<num_elements_, hash_table_, bucket_index, i, found, grew>>
  /\ ShsFrame

\* Contains: GetBucketIndex and std::find
ReadFind(t) ==
  /\ pc[t] = "RFind"
  /\ LET b == GetBucketIndex(Hash(arg[t]))
     IN /\ bucket_index' = [bucket_index EXCEPT ![t] = b]
        /\ found' = [found EXCEPT ![t] = Find(Bucket(b), arg[t])]
  /\ Goto(t, "RUnlock")
  /\ UNCHANGED <<num_elements_, hash_table_, locks_, i, grew>>
  /\ ShsFrame

\* Contains: ReadWriteLock::ReadUnlock and return found
ReadUnlock(t) ==
  /\ pc[t] = "RUnlock"
  /\ locks_' = [locks_ EXCEPT ![Stripe(t)].readers_ = @ - 1]
  /\ Finish(t, found[t])
  /\ UNCHANGED <<num_elements_, hash_table_, bucket_index, i, found, grew>>
  /\ ShsFrame

StripedStep(t) ==
  \/ WriteLockEnter(t) \/ WriteLockAcquire(t) \/ FindInBucket(t) \/ CheckLoad(t)
  \/ PushFront(t) \/ FetchAdd(t) \/ Erase(t) \/ FetchSub(t)
  \/ UnlockFail(t) \/ UnlockDone(t) \/ UnlockRehash(t)
  \/ RehashLockEnter(t) \/ RehashLockAcquire(t) \/ RehashCheck(t)
  \/ RehashBuild(t) \/ RehashUnlock(t)
  \/ ReadLock(t) \/ ReadFind(t) \/ ReadUnlock(t)

\* -------------------------------------------- OptimisticLinkedSet, by step
OlsFrame == UNCHANGED <<callVars, cfgVars, bqVars, shsVars, grew>>

\* Locate: pred = head_; curr = head_->next_
LocateBegin(t) ==
  /\ pc[t] = "Locate0"
  /\ pred' = [pred EXCEPT ![t] = head_]
  /\ curr' = [curr EXCEPT ![t] = next_[head_]]
  /\ Goto(t, "Locate")
  /\ UNCHANGED <<element_, next_, marked_, idle, head_, elements_, sentinelHit>>
  /\ OlsFrame

\* Locate: while (curr->element_ < element) { pred = curr; curr = curr->next_; }
\* reading through a null curr is undefined: the thread is lost ("UB")
LocateStep(t) ==
  /\ pc[t] = "Locate"
  /\ IF curr[t] = Null
     THEN Goto(t, "UB") /\ UNCHANGED <<pred, curr>>
     ELSE IF element_[curr[t]] < arg[t]
          THEN /\ pred' = [pred EXCEPT ![t] = curr[t]]
               /\ curr' = [curr EXCEPT ![t] = next_[curr[t]]]
               /\ Goto(t, "Locate")
          ELSE /\ Goto(t, IF op[t] = "Contains" THEN "Check" ELSE "LockPred")
               /\ UNCHANGED <<pred, curr>>
  /\ UNCHANGED <<element_, next_, marked_, idle, head_, elements_, sentinelHit>>
  /\ OlsFrame

\* slip: Remove locks the current node before its predecessor
LockOrder_CurrFirstOnRemove(t) ==
  IF op[t] = "Remove" THEN <<curr[t], pred[t]>> ELSE <<pred[t], curr[t]>>

\* Edge::Lock: the nodes of the edge in the order they are locked
LockOrder(t) == <<pred[t], curr[t]>>

\* Edge::Lock: pred_->lock_.Lock()
LockPred(t) ==
  /\ pc[t] = "LockPred"
  /\ idle[LockOrder(t)[1]]
  /\ idle' = [idle EXCEPT ![LockOrder(t)[1]] = FALSE]
  /\ Goto(t, "LockCurr")
  /\ UNCHANGED <<element_, next_, marked_, head_, elements_, pred, curr, sentinelHit>>
  /\ OlsFrame

\* Edge::Lock: curr_->lock_.Lock()
LockCurr(t) ==
  /\ pc[t] = "LockCurr"
  /\ idle[LockOrder(t)[2]]
  /\ idle' = [idle EXCEPT ![LockOrder(t)[2]] = FALSE]
  /\ Goto(t, "Validate")
  /\ UNCHANGED <<element_, next_, marked_, head_, elements_, pred, curr, sentinelHit>>
  /\ OlsFrame

\* Insert/Remove: Validate(search_result), then the comparison with element
ValidateEdge(t) ==
  /\ pc[t] = "Validate"
  /\ LET same == element_[curr[t]] = arg[t]
     IN IF ~Validate(pred[t], curr[t])
        THEN Goto(t, "UnlockCurrRetry") /\ UNCHANGED sentinelHit
        ELSE IF op[t] = "Insert"
             THEN Goto(t, IF same THEN "UnlockCurrFail" ELSE "InsertNode")
                  /\ UNCHANGED sentinelHit
             ELSE /\ Goto(t, IF same THEN "Unlink" ELSE "UnlockCurrFail")
                  /\ sentinelHit' = (sentinelHit \/ (same /\ curr[t] \in {HeadNode, TailNode}))
  /\ UNCHANGED <<element_, next_, marked_, idle, head_, elements_, pred, curr>>
  /\ OlsFrame

\* Insert: elements_.fetch_add(1); new_node = New<Node>(element, curr_);
\*         pred_->next_.store(new_node)
InsertNode(t) ==
  /\ pc[t] = "InsertNode"
  /\ LET new_node == Len(element_) + 1
     IN /\ elements_' = (elements_ + 1) % SizeMod
        /\ element_' = Append(element_, arg[t])
        /\ marked_' = Append(marked_, FALSE)
        /\ idle' = Append(idle, TRUE)
        /\ next_' = Append([next_ EXCEPT ![pred[t]] = new_node], curr[t])
  /\ Goto(t, "UnlockCurrDone")
  /\ UNCHANGED <<head_, pred, curr, sentinelHit>>
  /\ OlsFrame

\* Remove: elements_.fetch_sub(1); pred_->next_.store(curr_->next_.load())
Unlink(t) ==
  /\ pc[t] = "Unlink"
  /\ elements_' = (elements_ - 1) % SizeMod
  /\ next_' = [next_ EXCEPT ![pred[t]] = next_[curr[t]]]
  /\ Goto(t, "UnlockCurrDone")
  /\ UNCHANGED <<element_, marked_, idle, head_, pred, curr, sentinelHit>>
  /\ OlsFrame

\* Edge::Unlock: curr_->lock_.Unlock()
UnlockCurr(t) ==
  /\ pc[t] \in {"UnlockCurrRetry", "UnlockCurrFail", "UnlockCurrDone"}
  /\ idle' = [idle EXCEPT ![curr[t]] = TRUE]
  /\ Goto(t, CASE pc[t] = "UnlockCurrRetry" -> "UnlockPredRetry"
               [] pc[t] = "UnlockCurrFail" -> "UnlockPredFail"
               [] pc[t] = "UnlockCurrDone" -> "UnlockPredDone")
  /\ UNCHANGED <<element_, next_, marked_, head_, elements_, pred, curr, sentinelHit>>
  /\ OlsFrame

\* Edge::Unlock: pred_->lock_.Unlock(), validation failed: continue the loop
UnlockPredRetry(t) ==
  /\ pc[t] = "UnlockPredRetry"
  /\ idle' = [idle EXCEPT ![pred[t]] = TRUE]
  /\ Goto(t, "Locate0")
  /\ UNCHANGED <<element_, next_, marked_, head_, elements_, pred, curr, sentinelHit>>
  /\ OlsFrame

\* Edge::Unlock: pred_->lock_.Unlock(), then return false / true
UnlockPredReturn(t) ==
  /\ pc[t] \in {"UnlockPredFail", "UnlockPredDone"}
  /\ idle' = [idle EXCEPT ![pred[t]] = TRUE]
  /\ Finish(t, pc[t] = "UnlockPredDone")
  /\ UNCHANGED <<element_, next_, marked_, head_, elements_, pred, curr, sentinelHit>>
  /\ OlsFrame

\* Contains: return !candidate->marked_.load() && candidate->element_ == element
ContainsCheck(t) ==
  /\ pc[t] = "Check"
  /\ LET r == ~marked_[curr[t]] /\ element_[curr[t]] = arg[t]
     IN /\ Finish(t, r)
        /\ sentinelHit' = (sentinelHit \/ (r /\ curr[t] \in {HeadNode, TailNode}))
  /\ UNCHANGED olsVars
  /\ OlsFrame

LinkedStep(t) ==
  \/ LocateBegin(t) \/ LocateStep(t) \/ LockPred(t) \/ LockCurr(t)
  \/ ValidateEdge(t) \/ InsertNode(t) \/ Unlink(t)
  \/ UnlockCurr(t) \/ UnlockPredRetry(t) \/ UnlockPredReturn(t)
  \/ ContainsCheck(t)

\* ------------------------------------------------------------ specifications
\* slip: the table is built with one bucket whatever the stripe count
InitStriped_OneBucket(concurrency_level, growth_factor, lf) ==
  /\ load_factor = lf
  /\ growth_factor_ = growth_factor
  /\ max_load_factor_ = Truncate(lf)
  /\ num_stripes_ = concurrency_level
  /\ locks_ = [s \in 0..(concurrency_level - 1) |-> FreshLock]
  /\ num_elements_ = 0
  /\ hash_table_ = <<<<>>>>
  /\ bucket_index = [t \in Threads |-> 0]
  /\ found = [t \in Threads |-> FALSE]
  /\ i = [t \in Threads |-> 0]

\* StripedHashSet(concurrency_level, growth_factor, load_factor)
InitStriped(concurrency_level, growth_factor, lf) ==
  /\ load_factor = lf
  /\ growth_factor_ = growth_factor
  /\ max_load_factor_ = Truncate(lf)
  /\ num_stripes_ = concurrency_level
  /\ locks_ = [s \in 0..(concurrency_level - 1) |-> FreshLock]
  /\ num_elements_ = 0
  /\ hash_table_ = [b \in 1..concurrency_level |-> <<>>]
  /\ bucket_index = [t \in Threads |-> 0]
  /\ found = [t \in Threads |-> FALSE]
  /\ i = [t \in Threads |-> 0]

\* OptimisticLinkedSet(allocator): CreateEmptyList
InitLinked ==
  /\ element_ = <<MinT, MaxT>>
  /\ next_ = <<TailNode, Null>>
  /\ marked_ = <<FALSE, FALSE>>
  /\ idle = <<TRUE, TRUE>>
  /\ head_ = HeadNode
  /\ elements_ = 0
  /\ pred = [t \in Threads |-> Null]
  /\ curr = [t \in Threads |-> Null]

\* the threads using the BlockingQueue under test
QWorkers == 1..NWorkers
QProducers == (NWorkers + 1)..(NWorkers + NProducers)
Closer == NWorkers + NProducers + 1
QThreads == 1..Closer
QueueFiles == {"part_000", "part_001"}

\* BlockingQueue(capacity) with the workers started by ThreadPool(num_threads)
InitQueue(file, cap) ==
  /\ queueFile = file
  /\ capacity = cap
  /\ off = FALSE
  /\ box = <<>>
  /\ mutex = 0
  /\ nputs = 0
  /\ qpc = [t \in QThreads |-> IF t \in QWorkers THEN "GetLock" ELSE "idle"]

\* one set is built; the other is left as constructed with default arguments
InitSets ==
  /\ variant \in {"striped", "linked"}
  /\ InitLinked
  /\ IF variant = "striped"
     THEN \E c \in 1..MaxLevel, g \in 1..MaxGrowth, lf \in LoadFactors : InitStriped(c, g, lf)
     ELSE InitStriped(1, 2, 5)

InitCommon ==
  /\ InitSets
  /\ ncalls = 0
  /\ called = {}
  /\ pc = [t \in Threads |-> "idle"]
  /\ op = [t \in Threads |-> "Contains"]
  /\ arg = [t \in Threads |-> 0]
  /\ res = [t \in Threads |-> FALSE]
  /\ okIns = 0
  /\ okRem = 0
  /\ live = [v \in Values |-> FALSE]
  /\ retTrue = 0
  /\ retFalse = 0
  /\ present0 = FALSE
  /\ checkRes = FALSE
  /\ grew = FALSE
  /\ sentinelHit = FALSE
  /\ sentinelArg = FALSE
  /\ snap = Observable
  /\ InitQueue("part_001", NWorkers)

\* free-running threads: any method, any argument, any interleaving
Init ==
  /\ InitCommon
  /\ phase = "mixed"
  /\ runOp = "Insert"
  /\ target = 0

\* the statements of the two sets have different labels: a thread of a
\* striped run is never at a statement of the linked set, nor the reverse
SetStep(t) == StripedStep(t) \/ LinkedStep(t)

Next == \E t \in Threads : CallMixed(t) \/ SetStep(t)

Spec == Init /\ [][Next]_vars

\* scenario: a sequential prefix by thread 1, then every thread calls
\* runOp(target) once, then Contains(target)
InitScenario ==
  /\ InitCommon
  /\ phase = "fill"
  /\ runOp \in {"Insert", "Remove"}
  /\ target \in Values

NextScenario ==
  \/ BeginRun
  \/ \E t \in Threads : CallFill(t) \/ CallRun(t) \/ CallCheck(t) \/ SetStep(t)

SpecScenario == InitScenario /\ [][NextScenario]_vars

\* ------------------------------------------- ReadWriteLock, by mutex section
\* one ReadWriteLock (locks_[0] of a set with one stripe) used directly by
\* LockThreads; each method body runs under mutex_, so the part of a method
\* between two releases of mutex_ is one step, and a thread inside
\* condition_variable::wait sleeps until it is woken
LockThreads == 1..NLockThreads

\* the threads inside wait() of write_cv_
WriteSleepers(p) == {u \in LockThreads : p[u] = "WLSleep"}

\* slip: WriteUnlock forgets read_cv_.notify_all()
NotifyAll_None(p) == p

\* read_cv_.notify_all(): every sleeping reader is woken
NotifyAll(p) == [u \in LockThreads |-> IF p[u] = "RLSleep" THEN "RLWoken" ELSE p[u]]

\* write_cv_.notify_one(): one sleeping writer, if any, is woken
NotifyOne(p) ==
  IF WriteSleepers(p) = {} THEN {p}
  ELSE {[p EXCEPT ![u] = "WLWoken"] : u \in WriteSleepers(p)}

\* a caller is about to call ReadLock or WriteLock
LockRequest(t) ==
  /\ pc[t] = "idle" /\ ncalls < MaxLockCalls
  /\ \E l \in {"RLEnter", "WLEnter"} : pc' = [pc EXCEPT ![t] = l]
  /\ ncalls' = ncalls + 1
  /\ UNCHANGED <<variant, runOp, target, called, op, arg, present0, sentinelArg, snap>>
  /\ UNCHANGED <<retVars, cfgVars, bqVars, shsVars, olsVars, grew, sentinelHit>>

\* ReadLock: under mutex_, wait for !writers_, then readers_.fetch_add(1)
ReadLockTry(t) ==
  /\ pc[t] \in {"RLEnter", "RLWoken"}
  /\ IF CanRead(locks_[0])
     THEN /\ locks_' = [locks_ EXCEPT ![0].readers_ = @ + 1]
          /\ pc' = [pc EXCEPT ![t] = "RHold"]
     ELSE /\ pc' = [pc EXCEPT ![t] = "RLSleep"]
          /\ UNCHANGED locks_
  /\ UNCHANGED <<callVars, retVars, cfgVars, bqVars, olsVars, grew, sentinelHit>>
  /\ UNCHANGED <<num_elements_, hash_table_, bucket_index, i, found>>

\* ReadUnlock: readers_.fetch_sub(1); if it is 0, write_cv_.notify_one()
ReadRelease(t) ==
  /\ pc[t] = "RHold"
  /\ locks_' = [locks_ EXCEPT ![0].readers_ = @ - 1]
  /\ LET p == [pc EXCEPT ![t] = "idle"]
     IN IF locks_[0].readers_ - 1 = 0 THEN pc' \in NotifyOne(p) ELSE pc' = p
  /\ UNCHANGED <<callVars, retVars, cfgVars, bqVars, olsVars, grew, sentinelHit>>
  /\ UNCHANGED <<num_elements_, hash_table_, bucket_index, i, found>>

\* WriteLock, first section: writers_.fetch_add(1), then the wait
WriteLockBegin(t) ==
  /\ pc[t] = "WLEnter"
  /\ IF CanWrite(locks_[0])
     THEN /\ locks_' = [locks_ EXCEPT ![0].writers_ = @ + 1, ![0].write_state = TRUE]
          /\ pc' = [pc EXCEPT ![t] = "WHold"]
     ELSE /\ locks_' = [locks_ EXCEPT ![0].writers_ = @ + 1]
          /\ pc' = [pc EXCEPT ![t] = "WLSleep"]
  /\ UNCHANGED <<callVars, retVars, cfgVars, bqVars, olsVars, grew, sentinelHit>>
  /\ UNCHANGED <<num_elements_, hash_table_, bucket_index, i, found>>

\* WriteLock, woken inside the wait: recheck, then write_state.store(true)
WriteLockRetry(t) ==
  /\ pc[t] = "WLWoken"
  /\ IF CanWrite(locks_[0])
     THEN /\ locks_' = [locks_ EXCEPT ![0].write_state = TRUE]
          /\ pc' = [pc EXCEPT ![t] = "WHold"]
     ELSE /\ pc' = [pc EXCEPT ![t] = "WLSleep"]
          /\ UNCHANGED locks_
  /\ UNCHANGED <<callVars, retVars, cfgVars, bqVars, olsVars, grew, sentinelHit>>
  /\ UNCHANGED <<num_elements_, hash_table_, bucket_index, i, found>>

\* WriteUnlock: writers_.fetch_sub(1); write_state.store(false);
\* write_cv_.notify_one(); read_cv_.notify_all()
WriteRelease(t) ==
  /\ pc[t] = "WHold"
  /\ locks_' = [locks_ EXCEPT ![0] = WriteUnlocked(@)]
  /\ \E p \in NotifyOne([pc EXCEPT ![t] = "idle"]) : pc' = NotifyAll(p)
  /\ UNCHANGED <<callVars, retVars, cfgVars, bqVars, olsVars, grew, sentinelHit>>
  /\ UNCHANGED <<num_elements_, hash_table_, bucket_index, i, found>>

\* condition_variable::wait may return without a notification
SpuriousWakeup(t) ==
  /\ pc[t] \in {"RLSleep", "WLSleep"}
  /\ pc' = [pc EXCEPT ![t] = IF pc[t] = "RLSleep" THEN "RLWoken" ELSE "WLWoken"]
  /\ UNCHANGED <<callVars, retVars, cfgVars, bqVars, shsVars, olsVars, grew, sentinelHit>>

\* the steps a scheduled thread takes by itself
LockStep(t) ==
  \/ ReadLockTry(t) \/ ReadRelease(t)
  \/ WriteLockBegin(t) \/ WriteLockRetry(t) \/ WriteRelease(t)

\* a set of one stripe, whose lock is the lock under test
InitLock ==
  /\ variant = "striped"
  /\ InitLinked
  /\ InitStriped(1, 2, 5)
  /\ phase = "mixed" /\ runOp = "Insert" /\ target = 0
  /\ ncalls = 0 /\ called = {}
  /\ pc = [t \in LockThreads |-> "idle"]
  /\ op = [t \in Threads |-> "Contains"]
  /\ arg = [t \in Threads |-> 0]
  /\ res = [t \in Threads |-> FALSE]
  /\ okIns = 0 /\ okRem = 0
  /\ live = [v \in Values |-> FALSE]
  /\ retTrue = 0 /\ retFalse = 0
  /\ present0 = FALSE /\ checkRes = FALSE
  /\ grew = FALSE /\ sentinelHit = FALSE /\ sentinelArg = FALSE
  /\ snap = Observable
  /\ InitQueue("part_001", NWorkers)

NextLock == \E t \in LockThreads : LockRequest(t) \/ LockStep(t) \/ SpuriousWakeup(t)

\* every thread that can take a step of its own eventually takes one; new
\* requests and spurious wake-ups need not happen
SpecLock ==
  /\ InitLock
  /\ [][NextLock]_vars
  /\ \A t \in LockThreads : WF_vars(LockStep(t))

\* ------------------------------------- BlockingQueue and ThreadPool, by step
\* workers loop on Get, producers call Put (ThreadPool::Submit), one thread
\* calls Shutdown and joins the workers. A method body runs under mutex, the
\* wait inside it gives mutex up and sleeps until woken; Shutdown takes no
\* mutex, so its steps fall anywhere between the steps of the others.
\* Put of part_001 throws when off; Put of part_000 only builds the exception
PutThrows == queueFile = "part_001"

QFrame == UNCHANGED <<callVars, retVars, pc, cfgVars, shsVars, olsVars, grew, sentinelHit>>

\* cv.notify_all(): every thread sleeping at label from goes to label to
WakeAll(p, from, to) == [u \in QThreads |-> IF p[u] = from THEN to ELSE p[u]]

\* cv.notify_one(): one thread sleeping at label from, if any, goes to label to
WakeOne(p, from, to) ==
  IF \A u \in QThreads : p[u] # from THEN {p}
  ELSE {[p EXCEPT ![u] = to] : u \in {w \in QThreads : p[w] = from}}

\* ThreadPool::Submit: a producer calls tasks.Put
PutCall(t) ==
  /\ t \in QProducers /\ qpc[t] = "idle" /\ nputs < MaxPuts
  /\ qpc' = [qpc EXCEPT ![t] = "PutLock"]
  /\ nputs' = nputs + 1
  /\ UNCHANGED <<queueFile, capacity, off, box, mutex>>
  /\ QFrame

\* Put: std::unique_lock lock(mutex), also on the way out of a wait
PutLock(t) ==
  /\ qpc[t] \in {"PutLock", "PutWoken"}
  /\ mutex = 0
  /\ mutex' = t
  /\ qpc' = [qpc EXCEPT ![t] = "PutPred"]
  /\ UNCHANGED <<queueFile, capacity, off, box, nputs>>
  /\ QFrame

\* Put: the predicate of producer_cv.wait: box.size() != capacity || off
PutPred(t) ==
  /\ qpc[t] = "PutPred"
  /\ qpc' = [qpc EXCEPT ![t] = IF Len(box) # capacity \/ off THEN "PutBody" ELSE "PutWait"]
  /\ UNCHANGED <<queueFile, capacity, off, box, mutex, nputs>>
  /\ QFrame

\* Put: producer_cv.wait gives mutex up and the thread sleeps
PutWait(t) ==
  /\ qpc[t] = "PutWait"
  /\ mutex' = 0
  /\ qpc' = [qpc EXCEPT ![t] = "PutSleep"]
  /\ UNCHANGED <<queueFile, capacity, off, box, nputs>>
  /\ QFrame

\* Put: if (off) ...; box.push_back(element); consumer_cv.notify_one()
PutBody(t) ==
  /\ qpc[t] = "PutBody"
  /\ mutex' = 0
  /\ IF off /\ PutThrows
     THEN /\ qpc' = [qpc EXCEPT ![t] = "PutThrown"]
          /\ UNCHANGED box
     ELSE /\ box' = Append(box, t)
          /\ qpc' \in WakeOne([qpc EXCEPT ![t] = "idle"], "GetSleep", "GetWoken")
  /\ UNCHANGED <<queueFile, capacity, off, nputs>>
  /\ QFrame

\* Get: std::unique_lock lock(mutex), also on the way out of a wait
GetLock(t) ==
  /\ qpc[t] \in {"GetLock", "GetWoken"}
  /\ mutex = 0
  /\ mutex' = t
  /\ qpc' = [qpc EXCEPT ![t] = "GetPred"]
  /\ UNCHANGED <<queueFile, capacity, off, box, nputs>>
  /\ QFrame

\* Get: the predicate of consumer_cv.wait: box.size() || off
GetPred(t) ==
  /\ qpc[t] = "GetPred"
  /\ qpc' = [qpc EXCEPT ![t] = IF box # <<>> \/ off THEN "GetBody" ELSE "GetWait"]
  /\ UNCHANGED <<queueFile, capacity, off, box, mutex, nputs>>
  /\ QFrame

\* Get: consumer_cv.wait gives mutex up and the thread sleeps
GetWait(t) ==
  /\ qpc[t] = "GetWait"
  /\ mutex' = 0
  /\ qpc' = [qpc EXCEPT ![t] = "GetSleep"]
  /\ UNCHANGED <<queueFile, capacity, off, box, nputs>>
  /\ QFrame

\* Get: if (off && !box.size()) return false, which ends the worker's loop;
\* else pop_front, producer_cv.notify_one(), return true, task(), Get again
GetBody(t) ==
  /\ qpc[t] = "GetBody"
  /\ mutex' = 0
  /\ IF off /\ box = <<>>
     THEN /\ qpc' = [qpc EXCEPT ![t] = "Exited"]
          /\ UNCHANGED box
     ELSE /\ box' = Tail(box)
          /\ qpc' \in WakeOne([qpc EXCEPT ![t] = "GetLock"], "PutSleep", "PutWoken")
  /\ UNCHANGED <<queueFile, capacity, off, nputs>>
  /\ QFrame

\* Shutdown: off.store(true)
ShutdownStore(t) ==
  /\ t = Closer /\ qpc[t] = "idle"
  /\ off' = TRUE
  /\ qpc' = [qpc EXCEPT ![t] = "NotifyConsumers"]
  /\ UNCHANGED <<queueFile, capacity, box, mutex, nputs>>
  /\ QFrame

\* Shutdown: consumer_cv.notify_all()
ShutdownNotifyConsumers(t) ==
  /\ qpc[t] = "NotifyConsumers"
  /\ qpc' = WakeAll([qpc EXCEPT ![t] = "NotifyProducers"], "GetSleep", "GetWoken")
  /\ UNCHANGED <<queueFile, capacity, off, box, mutex, nputs>>
  /\ QFrame

\* Shutdown: producer_cv.notify_all()
ShutdownNotifyProducers(t) ==
  /\ qpc[t] = "NotifyProducers"
  /\ qpc' = WakeAll([qpc EXCEPT ![t] = "Join"], "PutSleep", "PutWoken")
  /\ UNCHANGED <<queueFile, capacity, off, box, mutex, nputs>>
  /\ QFrame

\* ThreadPool::Shutdown: the loop of join() ends when every worker has ended
JoinWorkers(t) ==
  /\ qpc[t] = "Join"
  /\ \A w \in QWorkers : qpc[w] = "Exited"
  /\ qpc' = [qpc EXCEPT ![t] = "Joined"]
  /\ UNCHANGED <<queueFile, capacity, off, box, mutex, nputs>>
  /\ QFrame

\* condition_variable::wait may return without a notification
QueueSpuriousWakeup(t) ==
  /\ qpc[t] \in {"GetSleep", "PutSleep"}
  /\ qpc' = [qpc EXCEPT ![t] = IF qpc[t] = "GetSleep" THEN "GetWoken" ELSE "PutWoken"]
  /\ UNCHANGED <<queueFile, capacity, off, box, mutex, nputs>>
  /\ QFrame

\* the steps a scheduled thread takes by itself, once inside a call
QueueStep(t) ==
  \/ PutLock(t) \/ PutPred(t) \/ PutWait(t) \/ PutBody(t)
  \/ GetLock(t) \/ GetPred(t) \/ GetWait(t) \/ GetBody(t)
  \/ ShutdownNotifyConsumers(t) \/ ShutdownNotifyProducers(t) \/ JoinWorkers(t)

\* a queue of either file; the sets are left as constructed
InitQueueRun ==
  /\ variant = "striped"
  /\ InitLinked
  /\ InitStriped(1, 2, 5)
  /\ phase = "mixed" /\ runOp = "Insert" /\ target = 0
  /\ ncalls = 0 /\ called = {}
  /\ pc = [t \in Threads |-> "idle"]
  /\ op = [t \in Threads |-> "Contains"]
  /\ arg = [t \in Threads |-> 0]
  /\ res = [t \in Threads |-> FALSE]
  /\ okIns = 0 /\ okRem = 0
  /\ live = [v \in Values |-> FALSE]
  /\ retTrue = 0 /\ retFalse = 0
  /\ present0 = FALSE /\ checkRes = FALSE
  /\ grew = FALSE /\ sentinelHit = FALSE /\ sentinelArg = FALSE
  /\ snap = Observable
  /\ \E file \in QueueFiles, cap \in 1..MaxCapacity : InitQueue(file, cap)

NextQueue ==
  \E t \in QThreads :
    PutCall(t) \/ ShutdownStore(t) \/ QueueStep(t) \/ QueueSpuriousWakeup(t)

\* every thread that can take a step of its call eventually takes one; new
\* calls and spurious wake-ups need not happen
SpecQueue ==
  /\ InitQueueRun
  /\ [][NextQueue]_vars
  /\ \A t \in QThreads : WF_vars(QueueStep(t))

\* free-running threads over the striped set alone, every running thread
\* scheduled fairly: a thread that can take a step of its call eventually
\* takes one
InitStripedMixed == Init /\ variant = "striped"

NextStriped == \E t \in Threads : CallMixed(t) \/ StripedStep(t)

SpecStripedFair ==
  /\ InitStripedMixed
  /\ [][NextStriped]_vars
  /\ \A t \in Threads : WF_vars(StripedStep(t))

\* the scenario over the linked set alone, every running thread scheduled
\* fairly: a thread that can take a step of its call eventually takes one
InitLinkedScenario == InitScenario /\ variant = "linked"

NextLinkedScenario ==
  \/ BeginRun
  \/ \E t \in Threads : CallFill(t) \/ CallRun(t) \/ CallCheck(t) \/ LinkedStep(t)

SpecLinkedFair ==
  /\ InitLinkedScenario
  /\ [][NextLinkedScenario]_vars
  /\ \A t \in Threads : WF_vars(LinkedStep(t))

\* ------------------------------------------------------------------ claims
Striped == variant = "striped"
Linked == variant = "linked"

\* no Insert, Remove or Rehash is in flight
Quiescent == \A t \in Threads : pc[t] = "idle" \/ op[t] = "Contains"

\* C1 (SpecScenario): StripedHashSet, target not an element when the calls
\* begin and every thread calls Insert(target): never more than one call has
\* returned true, and once all have returned and Contains(target) has been
\* called, exactly one returned true, the others false, and Contains is true.
C1_StripedInsertOnce ==
  (Striped /\ runOp = "Insert" /\ phase \in {"run", "check", "done"} /\ ~present0)
    => /\ retTrue <= 1
       /\ phase = "done" => (retTrue = 1 /\ retFalse = NThreads - 1 /\ checkRes)

\* all calls returned after a Rehash replaced the table while they ran
C1_Witness ==
  /\ Striped /\ runOp = "Insert" /\ phase = "done" /\ ~present0
  /\ grew /\ retTrue = 1 /\ retFalse = NThreads - 1 /\ checkRes

\* C2 (SpecScenario): OptimisticLinkedSet, target not an element when the
\* calls begin and every thread calls Insert(target): exactly one call
\* returns true, the others false, and Contains(target) is true afterwards.
C2_LinkedInsertOnce ==
  (Linked /\ runOp = "Insert" /\ phase \in {"run", "check", "done"} /\ ~present0)
    => /\ retTrue <= 1
       /\ phase = "done" => (retTrue = 1 /\ retFalse = NThreads - 1 /\ checkRes)

\* the same for arguments strictly between the sentinels
C2_InteriorInsertOnce == ~sentinelArg => C2_LinkedInsertOnce

\* C3 (SpecScenario): both sets, every thread calls Remove(target): one call
\* returns true if target was an element and none otherwise, the others
\* return false, and Contains(target) is false afterwards.
C3_RemoveOnce ==
  (runOp = "Remove" /\ phase \in {"run", "check", "done"})
    => /\ retTrue <= (IF present0 THEN 1 ELSE 0)
       /\ phase = "done" => /\ retTrue = (IF present0 THEN 1 ELSE 0)
                            /\ retFalse = NThreads - retTrue
                            /\ ~checkRes

\* the same for arguments strictly between the sentinels
C3_InteriorRemoveOnce == ~sentinelArg => C3_RemoveOnce

\* number of reachable nodes that are not sentinels
ChainCount == Cardinality({k \in 1..Len(Chain) : Chain[k] \notin {HeadNode, TailNode}})

\* C4 (Spec): OptimisticLinkedSet, calls on values strictly between the
\* sentinels only: when no call is in flight the reachable values are exactly
\* those whose last successful call was an Insert, and Size() is the number of
\* reachable non-sentinel nodes.
C4_LinkedQuiescentConsistency ==
  (Linked /\ AllIdle /\ ~sentinelArg)
    => /\ ChainElems = {v \in Values : live[v]}
       /\ elements_ = ChainCount

\* C5 (Spec): StripedHashSet, no Insert, Remove or Rehash in flight: Size()
\* is the sum of the bucket lengths and the number of successful Inserts
\* minus the number of successful Removes.
C5_StripedSizeConsistent ==
  (Striped /\ Quiescent)
    => /\ num_elements_ = TableCount(hash_table_)
       /\ num_elements_ = okIns - okRem

\* quiescent after inserts, a Rehash and a Remove
C5_Witness ==
  /\ Striped /\ Quiescent /\ okIns >= 2 /\ okRem >= 1
  /\ Len(hash_table_) > num_stripes_
  /\ num_elements_ = 1

\* C6 (Spec): OptimisticLinkedSet, any arguments: head_ stays the head
\* sentinel, the tail sentinel stays reachable, and Remove and Contains never
\* match a sentinel node.
C6_SentinelsStay ==
  Linked => /\ head_ = HeadNode
            /\ \E k \in 1..Len(Chain) : Chain[k] = TailNode
            /\ ~sentinelHit

\* the chain from head_ ends at the tail sentinel and is strictly increasing
Sorted ==
  /\ Chain # <<>>
  /\ Chain[1] = HeadNode
  /\ Chain[Len(Chain)] = TailNode
  /\ \A k \in 1..(Len(Chain) - 1) : element_[Chain[k]] < element_[Chain[k + 1]]

\* C7 (Spec): OptimisticLinkedSet, when no call is in flight the traversal
\* from head reaches the tail sentinel through strictly increasing values.
C7_LinkedSorted == (Linked /\ AllIdle) => Sorted

\* the same for arguments strictly between the sentinels, in every state
C7_InteriorSorted == (Linked /\ ~sentinelArg) => Sorted

RECURSIVE IsGrown(_)
\* c = num_stripes_ * growth_factor_^k for some k >= 0
IsGrown(c) ==
  \/ c = num_stripes_
  \/ /\ growth_factor_ > 1 /\ c > num_stripes_ /\ c % growth_factor_ = 0
     /\ IsGrown(c \div growth_factor_)

\* number of copies of v in the table
Copies(tab, v) == Cardinality({k \in 1..Len(Flatten(tab)) : Flatten(tab)[k] = v})

\* what Contains(v) computes on table tab
Lookup(tab, v) == Find(tab[(Hash(v) % Len(tab)) + 1], v)

\* a Rehash of thread t replaces the table in this step
Rebuilds(t) == pc[t] = "RhBuild" /\ pc'[t] # "RhBuild"

\* C8 (Spec): StripedHashSet: the capacity is always
\* concurrency_level * growth_factor^k; a Rehash that replaces the table
\* multiplies the capacity by growth_factor, keeps every element exactly once
\* and leaves it where Contains finds it.
C8_ResizeCorrect ==
  /\ [](Striped => IsGrown(Len(hash_table_)))
  /\ [][\A t \in Threads : Rebuilds(t) =>
          /\ Len(hash_table_') = Len(hash_table_) * growth_factor_
          /\ \A v \in Values :
               /\ Copies(hash_table_', v) = Copies(hash_table_, v)
               /\ Copies(hash_table_, v) > 0 => Lookup(hash_table_', v)]_vars

\* a table that has grown twice and still holds its elements
C8_Witness ==
  /\ Striped /\ growth_factor_ = 2
  /\ Len(hash_table_) = 4 * num_stripes_
  /\ num_elements_ >= 2
  /\ \A v \in TableElems(hash_table_) : Lookup(hash_table_, v)

\* C9 (Spec): StripedHashSet::Insert of an absent element goes to Rehash
\* exactly when size / capacity exceeds the load_factor the set was built with.
C9_GrowthTrigger ==
  [][\A t \in Threads : (pc[t] = "CheckLoad" /\ pc'[t] # "CheckLoad") =>
       (pc'[t] = "UnlockRehash" <=> 4 * num_elements_ > load_factor * Len(hash_table_))]_vars

\* the half of C9 the code keeps: no resize unless the ratio exceeds load_factor
C9_NoEarlyGrowth ==
  [][\A t \in Threads : (pc[t] = "CheckLoad" /\ pc'[t] = "UnlockRehash") =>
       4 * num_elements_ > load_factor * Len(hash_table_)]_vars

\* every lock of both sets is free
NoLockHeld ==
  /\ \A s \in DOMAIN locks_ : locks_[s] = FreshLock
  /\ \A n \in DOMAIN idle : idle[n]

\* the sequential call of thread 1 that has just returned was a logical failure
FailedSolo ==
  /\ phase = "fill" /\ pc[1] = "idle" /\ ncalls > 0
  /\ \/ op[1] = "Insert" /\ arg[1] \in snap.elems
     \/ op[1] = "Remove" /\ arg[1] \notin snap.elems

\* C10 (SpecScenario): both sets, a call made with no other call in flight:
\* Insert of an element, or Remove of a non-element, returns false, leaves
\* buckets / chain, capacity and Size() as they were and holds no lock.
C10_FailureLeavesState ==
  FailedSolo => /\ res[1] = FALSE
                /\ Observable = snap
                /\ NoLockHeld

\* the same for arguments strictly between the sentinels
C10_InteriorFailureLeavesState == ~sentinelArg => C10_FailureLeavesState

\* thread t is inside Contains of the linked set
InContains(t) == Linked /\ op[t] = "Contains" /\ pc[t] # "idle"

\* thread t takes this step
Moved(t) == pc'[t] # pc[t] \/ pred'[t] # pred[t] \/ curr'[t] # curr[t]

\* the shared state of the linked set is unchanged by this step
ListUnchanged == UNCHANGED <<element_, next_, marked_, idle, head_, elements_>>

\* a step of Locate that advances reaches a node with a larger element
Advances(t) ==
  (pc[t] = "Locate" /\ pc'[t] = "Locate" /\ curr'[t] # curr[t])
    => (curr'[t] # Null /\ element_[curr'[t]] > element_[curr[t]])

\* C11 (Spec): OptimisticLinkedSet::Contains can always take its next step
\* whatever locks are held, its steps change no node, lock, mark or size, and
\* every step of its traversal moves to a strictly larger element, so it
\* returns after finitely many of its own steps.
C11_ContainsNeverBlocks ==
  /\ [](\A t \in Threads : InContains(t) => ENABLED LinkedStep(t))
  /\ [][\A t \in Threads : (InContains(t) /\ Moved(t)) => (ListUnchanged /\ Advances(t))]_vars

\* the same while only arguments strictly between the sentinels have been used
C11_InteriorContainsNeverBlocks ==
  /\ [](\A t \in Threads : (InContains(t) /\ ~sentinelArg) => ENABLED LinkedStep(t))
  /\ [][\A t \in Threads : (InContains(t) /\ ~sentinelArg /\ Moved(t))
          => (ListUnchanged /\ Advances(t))]_vars

\* node n is no longer reachable from head_
Unlinked(n) == \A k \in 1..Len(Chain) : Chain[k] # n

\* C12 (Remove, Validate): the step of Remove that unlinks a node leaves it
\* marked removed, and Validate is false for every locked edge whose pred or
\* curr has been unlinked, so the operation goes back to Locate
C12_RemoveMarks ==
  /\ [][\A t \in Threads :
          (Linked /\ pc[t] = "Unlink" /\ pc'[t] # "Unlink") => marked_'[curr[t]]]_vars
  /\ [](\A t \in Threads :
          (Linked /\ pc[t] = "Validate" /\ (Unlinked(pred[t]) \/ Unlinked(curr[t])))
            => ~Validate(pred[t], curr[t]))

\* the same for calls whose arguments lie strictly between the sentinels
C12_InteriorRemoveMarks ==
  [][\A t \in Threads :
       (Linked /\ ~sentinelArg /\ pc[t] = "Unlink" /\ pc'[t] # "Unlink")
         => marked_'[curr[t]]]_vars

\* some thread is inside Rehash
RehashInProgress ==
  \E t \in Threads : pc[t] \in {"RhEnter", "RhWait", "RhCheck", "RhBuild", "RhUnlock"}

\* the number of items of bucket equal to v
CountIn(bucket, v) == Cardinality({k \in 1..Len(bucket) : bucket[k] = v})

\* C13 (Insert, Rehash): while no Rehash is in progress, an element with hash h
\* is found only in bucket h mod capacity, and no bucket holds two equal
\* elements
C13_BucketInvariant ==
  (Striped /\ ~RehashInProgress) =>
    \A b \in 0..(Len(hash_table_) - 1) : \A v \in Values :
      /\ Find(Bucket(b), v) => b = Hash(v) % Len(hash_table_)
      /\ CountIn(Bucket(b), v) <= 1

\* a grown table holds two elements, one of them in a bucket beyond the stripes
C13_Witness ==
  /\ Striped /\ ~RehashInProgress
  /\ Len(hash_table_) > num_stripes_
  /\ TableCount(hash_table_) >= 2
  /\ \E b \in num_stripes_..(Len(hash_table_) - 1) : Bucket(b) # <<>>

\* thread t has returned from WriteLock of its stripe and not yet unlocked it
InWriteSection(t) ==
  pc[t] \in {"Find", "CheckLoad", "PushFront", "FetchAdd", "Erase", "FetchSub",
             "UnlockFail", "UnlockDone", "UnlockRehash"}
\* thread t has returned from ReadLock of its stripe and not yet unlocked it
InReadSection(t) == pc[t] \in {"RFind", "RUnlock"}
\* thread t, inside Rehash, holds the write lock of stripe s
RehashHolds(t, s) ==
  \/ pc[t] \in {"RhEnter", "RhWait"} /\ s < i[t]
  \/ pc[t] \in {"RhCheck", "RhBuild"}
  \/ pc[t] = "RhUnlock" /\ s >= i[t]
\* thread t holds the write lock / the read lock of stripe s
HoldsWrite(t, s) == (InWriteSection(t) /\ Stripe(t) = s) \/ RehashHolds(t, s)
HoldsRead(t, s) == InReadSection(t) /\ Stripe(t) = s
\* the next step of thread t reads the table size or a bucket, or writes one
TouchesTable(t) ==
  pc[t] \in {"Find", "CheckLoad", "PushFront", "Erase", "RFind", "RhCheck", "RhBuild"}
StripeIds == 0..(num_stripes_ - 1)

\* C14 (Insert, Remove, Contains, Rehash): a bucket is read or written only
\* under the lock of the stripe hash mod stripe_count; a stripe has at most one
\* writer inside and then no reader; the thread replacing the table holds every
\* stripe's write lock and no other thread is about to touch the table; the
\* table size changes only in such a step
C14_TableExclusion ==
  /\ [](Striped =>
         /\ \A t \in Threads :
              /\ (TouchesTable(t) /\ InWriteSection(t)) =>
                   /\ locks_[Stripe(t)].write_state
                   /\ locks_[Stripe(t)].readers_ = 0
              /\ pc[t] \in {"PushFront", "Erase"} =>
                   bucket_index[t] % num_stripes_ = Stripe(t)
              /\ pc[t] = "RFind" =>
                   /\ locks_[Stripe(t)].readers_ >= 1
                   /\ ~locks_[Stripe(t)].write_state
              /\ pc[t] = "RhBuild" =>
                   /\ \A s \in StripeIds : HoldsWrite(t, s)
                   /\ \A u \in Threads \ {t} : ~TouchesTable(u)
         /\ \A s \in StripeIds :
              /\ \A t, u \in Threads : (HoldsWrite(t, s) /\ HoldsWrite(u, s)) => t = u
              /\ \A t, u \in Threads : ~(HoldsWrite(t, s) /\ HoldsRead(u, s))
              /\ locks_[s].write_state = (\E t \in Threads : HoldsWrite(t, s))
              /\ locks_[s].readers_ = Cardinality({t \in Threads : HoldsRead(t, s)}))
  /\ [][(Striped /\ Len(hash_table_') # Len(hash_table_))
          => \E t \in Threads : pc[t] = "RhBuild" /\ pc'[t] = "RhUnlock"]_vars

\* a thread replaces the table while another waits for a stripe lock
C14_Witness ==
  /\ Striped
  /\ \E t, u \in Threads :
       /\ pc[t] = "RhBuild"
       /\ pc[u] \in {"WLockWait", "RLock", "RhWait"}

\* thread t waits for a stripe lock that it cannot take in this state
WaitsForStripe(t, s) ==
  \/ pc[t] = "WLockWait" /\ Stripe(t) = s /\ ~CanWrite(locks_[s])
  \/ pc[t] = "RhWait" /\ i[t] = s /\ ~CanWrite(locks_[s])
  \/ pc[t] = "RLock" /\ Stripe(t) = s /\ ~CanRead(locks_[s])
\* thread u has announced itself as a writer of stripe s (writers_ counts it)
CountedWriter(u, s) ==
  \/ HoldsWrite(u, s)
  \/ pc[u] = "WLockWait" /\ Stripe(u) = s
  \/ pc[u] = "RhWait" /\ i[u] = s
\* thread u keeps the wait of thread t on stripe s from ending
BlocksStripe(u, t, s) ==
  IF pc[t] = "RLock" THEN u # t /\ CountedWriter(u, s)
  ELSE HoldsWrite(u, s) \/ HoldsRead(u, s)
\* the threads of D all wait, each for threads of D only
StripeDeadlock(D) ==
  /\ D # {}
  /\ \A t \in D : \E s \in StripeIds :
       /\ WaitsForStripe(t, s)
       /\ \A u \in Threads : BlocksStripe(u, t, s) => u \in D

\* C15 (Insert, Rehash): Rehash takes the stripe write locks one by one in
\* ascending index, the step of Insert that goes on to Rehash gives up its
\* stripe lock first, and no set of threads waits on each other's stripe
\* locks
C15_StripedDeadlockFree ==
  /\ [](Striped => \A D \in SUBSET Threads : ~StripeDeadlock(D))
  /\ [][Striped => \A t \in Threads :
          /\ (pc[t] = "RhWait" /\ pc'[t] # "RhWait") =>
               /\ i'[t] = i[t] + 1
               /\ locks_'[i[t]].write_state
               /\ \A s \in StripeIds : s < i'[t] => locks_'[s].write_state
          /\ (pc[t] = "UnlockRehash" /\ pc'[t] # "UnlockRehash") =>
               /\ pc'[t] = "RhEnter" /\ i'[t] = 0
               /\ ~locks_'[Stripe(t)].write_state]_vars

\* a thread inside Rehash holds stripe 0 and waits for stripe 1, which another
\* thread holds
C15_Witness ==
  /\ Striped
  /\ \E t, u \in Threads :
       /\ t # u /\ pc[t] = "RhWait" /\ i[t] = 1 /\ WaitsForStripe(t, 1)
       /\ HoldsWrite(u, 1) \/ HoldsRead(u, 1)

Nodes == 1..Len(element_)
\* thread t holds the lock of node n
HoldsNode(t, n) ==
  \/ pc[t] = "LockCurr" /\ n = LockOrder(t)[1]
  \/ pc[t] \in {"Validate", "InsertNode", "Unlink",
               "UnlockCurrRetry", "UnlockCurrFail", "UnlockCurrDone"}
       /\ n \in {pred[t], curr[t]}
  \/ pc[t] \in {"UnlockPredRetry", "UnlockPredFail", "UnlockPredDone"} /\ n = pred[t]
\* thread t spins on the lock of node n
SpinsOn(t, n) ==
  \/ pc[t] = "LockPred" /\ n = LockOrder(t)[1] /\ ~idle[n]
  \/ pc[t] = "LockCurr" /\ n = LockOrder(t)[2] /\ ~idle[n]
\* the threads of D all spin, each on a lock held inside D or by nobody
NodeDeadlock(D) ==
  /\ D # {}
  /\ \A t \in D : \E n \in Nodes :
       /\ SpinsOn(t, n)
       /\ \A u \in Threads : HoldsNode(u, n) => u \in D

\* C16 (Edge::Lock, SpinLock): a thread takes the lock of the current node only
\* while it holds the predecessor's, a node lock is busy exactly when one
\* thread holds it as the pred or curr of its edge, and no set of threads spin
\* on node locks held by each other
C16_LinkedDeadlockFree ==
  Linked =>
    /\ \A D \in SUBSET Threads : ~NodeDeadlock(D)
    /\ \A t \in Threads :
         /\ pc[t] = "LockCurr" => (~idle[pred[t]] /\ HoldsNode(t, pred[t]))
         /\ \A n \in Nodes : HoldsNode(t, n) => n \in {pred[t], curr[t]}
    /\ \A n \in Nodes :
         /\ idle[n] = ~(\E t \in Threads : HoldsNode(t, n))
         /\ \A t, u \in Threads : (HoldsNode(t, n) /\ HoldsNode(u, n)) => t = u

\* a thread spins on a node that has been unlinked and is still locked by
\* the thread that removed it
C16_Witness ==
  /\ Linked
  /\ \E t, u \in Threads : \E n \in Nodes :
       /\ t # u /\ SpinsOn(t, n) /\ HoldsNode(u, n) /\ Unlinked(n)
       /\ n \notin {HeadNode, TailNode}

\* C17 (Insert, Remove): with finitely many calls and fair scheduling every
\* call returns, and a call that runs while no other call is in flight passes
\* Validate at its first attempt
C17_RetryTerminates ==
  /\ \A t \in Threads : (Linked /\ pc[t] # "idle") ~> (pc[t] = "idle")
  /\ [][\A t \in Threads :
          (Linked /\ phase = "fill" /\ pc[t] = "Validate") => pc'[t] # "UnlockCurrRetry"]_vars

\* the same while only arguments strictly between the sentinels have been used
C17_InteriorRetryTerminates ==
  /\ \A t \in Threads : (Linked /\ pc[t] # "idle") ~> (pc[t] = "idle" \/ sentinelArg)
  /\ [][\A t \in Threads :
          (Linked /\ ~sentinelArg /\ phase = "fill" /\ pc[t] = "Validate")
            => pc'[t] # "UnlockCurrRetry"]_vars

\* C18 (Insert, Rehash, constructor): for concurrency_level >= 1 and
\* growth_factor >= 1, an Insert that found the table over the threshold and
\* goes on to Rehash and retry eventually returns
C18_InsertTerminates ==
  \A t \in Threads :
    (Striped /\ num_stripes_ >= 1 /\ growth_factor_ >= 1 /\ pc[t] = "UnlockRehash")
      ~> (pc[t] = "idle")

\* the same for the sets whose table does grow in Rehash
C18_GrowingInsertTerminates ==
  \A t \in Threads :
    (Striped /\ num_stripes_ >= 1 /\ growth_factor_ >= 2 /\ pc[t] = "UnlockRehash")
      ~> (pc[t] = "idle")

\* hash values up to twice the table size: enough to meet every bucket twice
HashRange == 0..(2 * Len(hash_table_) + 1)

\* C19 (constructor, Rehash, GetBucketIndex, GetStripeIndex): the stripe count
\* and the array of stripe locks never change, the table size is a positive
\* multiple of the stripe count, and two hash values of the same bucket are
\* of the same stripe
C19_StripeCoverage ==
  /\ [](Striped =>
         /\ num_stripes_ >= 1
         /\ DOMAIN locks_ = 0..(num_stripes_ - 1)
         /\ Len(hash_table_) >= num_stripes_
         /\ Len(hash_table_) % num_stripes_ = 0
         /\ \A h1, h2 \in HashRange :
              GetBucketIndex(h1) = GetBucketIndex(h2)
                => GetStripeIndex(h1) = GetStripeIndex(h2))
  /\ [][num_stripes_' = num_stripes_ /\ DOMAIN locks_' = DOMAIN locks_]_vars

\* in a grown table of several stripes a thread writes a bucket beyond the
\* first stripe_count buckets
C19_Witness ==
  /\ Striped /\ num_stripes_ >= 2 /\ Len(hash_table_) >= 2 * num_stripes_
  /\ \E t \in Threads : pc[t] = "PushFront" /\ bucket_index[t] >= num_stripes_

\* the threads that returned from ReadLock / WriteLock and have not unlocked
ReadHolders == {t \in LockThreads : pc[t] = "RHold"}
WriteHolders == {t \in LockThreads : pc[t] = "WHold"}
\* the threads inside WriteLock or holding the write lock
Writers == {t \in LockThreads : pc[t] \in {"WLSleep", "WLWoken", "WHold"}}
\* thread t is inside ReadLock / WriteLock and has not returned from it
InReadLock(t) == pc[t] \in {"RLEnter", "RLSleep", "RLWoken"}
InWriteLock(t) == pc[t] \in {"WLEnter", "WLSleep", "WLWoken"}

\* C20 (ReadWriteLock): a write holder is the only holder; the counters agree
\* with the holders; a thread in ReadLock that runs while no writer holds or
\* waits is admitted, whatever the number of readers inside; and, the holders
\* unlocking and the requests being finitely many, every thread inside
\* ReadLock or WriteLock is eventually admitted
C20_LockExclusion ==
  /\ [](/\ \A t \in WriteHolders : WriteHolders \cup ReadHolders = {t}
        /\ locks_[0].readers_ = Cardinality(ReadHolders)
        /\ locks_[0].writers_ = Cardinality(Writers)
        /\ locks_[0].write_state = (WriteHolders # {}))
  /\ [][\A t \in LockThreads :
          (pc[t] \in {"RLEnter", "RLWoken"} /\ pc'[t] # pc[t] /\ Writers = {})
            => pc'[t] = "RHold"]_vars
  /\ \A t \in LockThreads : InReadLock(t) ~> (pc[t] = "RHold")
  /\ \A t \in LockThreads : InWriteLock(t) ~> (pc[t] = "WHold")

\* two threads hold the read lock together while a writer sleeps in WriteLock
C20_Witness ==
  /\ DOMAIN pc = LockThreads
  /\ Cardinality(ReadHolders) >= 2
  /\ \E t \in LockThreads : pc[t] = "WLSleep"

\* thread t is inside Get / Put and has not returned from it
InGet(t) == qpc[t] \in {"GetLock", "GetPred", "GetWait", "GetSleep", "GetWoken", "GetBody"}
InPut(t) == qpc[t] \in {"PutLock", "PutPred", "PutWait", "PutSleep", "PutWoken", "PutBody"}

\* the queue never holds more than capacity elements
C21_QueueBound == Len(box) <= capacity

\* once off is set, a Put that runs its body throws and leaves box alone
C21_PutThrows ==
  [][\A t \in QThreads :
       (qpc[t] = "PutBody" /\ off /\ qpc'[t] # "PutBody")
         => (qpc'[t] = "PutThrown" /\ box' = box)]_vars

\* after Shutdown every worker's Get returns false, every Put returns or
\* throws, and the thread that called Shutdown joins the workers
C21_ShutdownReturns ==
  /\ \A t \in QWorkers : off ~> (qpc[t] = "Exited" /\ box = <<>>)
  /\ \A t \in QProducers : (off /\ InPut(t)) ~> (qpc[t] \in {"idle", "PutThrown"})
  /\ (qpc[Closer] # "idle") ~> (qpc[Closer] = "Joined")

\* C21 (BlockingQueue, ThreadPool::Shutdown): box never holds more than
\* capacity elements; after Shutdown every thread in Get or Put returns (Get
\* with false once box is empty, Put by throwing), and the Shutdown of the
\* pool joins all workers
C21_QueueShutdown ==
  /\ []C21_QueueBound
  /\ C21_PutThrows
  /\ C21_ShutdownReturns

\* the bound and the throw, for the queue of part_001 (the one of ThreadPool)
C21_ThrowingQueueBound ==
  /\ [](PutThrows => C21_QueueBound)
  /\ [][PutThrows => \A t \in QThreads :
          (qpc[t] = "PutBody" /\ off /\ qpc'[t] # "PutBody")
            => (qpc'[t] = "PutThrown" /\ box' = box)]_vars

\* the join of ThreadPool::Shutdown, for the queue of part_001
C21_PoolShutdownJoins ==
  (PutThrows /\ qpc[Closer] # "idle") ~> (qpc[Closer] = "Joined")

====
